---- MODULE Spec2Model ----
(***************************************************************************)
(* Model of main/server/models.py: the Django models of the Q&A forum and  *)
(* the signal handlers that keep the denormalised fields (score, rank,     *)
(* full_score, reputation, counters, notes) up to date.                    *)
(*                                                                         *)
(* A Django model instance is an in-memory copy of a row: save() writes    *)
(* every field of the copy over the row.  The model keeps that             *)
(* distinction: "rows" live in the database variables, "instances" are     *)
(* records handed from operator to operator, and every handler states      *)
(* which instance it reads from the database and which it was given.       *)
(*                                                                         *)
(* Post.rank is a FloatField holding time.mktime() seconds plus multiples  *)
(* of 3600; all values are whole numbers far below 2^53, so the float      *)
(* arithmetic is exact and is modelled with integers.                      *)
(***************************************************************************)
EXTENDS Integers, Sequences, FiniteSets, Bags, TLC

(***************************************************************************)
(* Bounds of the model                                                     *)
(***************************************************************************)
\* the number of operations (requests) of a run
MaxOps == 4

(***************************************************************************)
(* Constants of main.server.const                                          *)
(***************************************************************************)
POST_QUESTION == "question"
POST_ANSWER == "answer"
POST_COMMENT == "comment"
POST_TYPES == {POST_QUESTION, POST_ANSWER, POST_COMMENT}
POST_TOPLEVEL == {POST_QUESTION}
POST_CONTENT_ONLY == {POST_ANSWER, POST_COMMENT}

POST_OPEN == "open"
POST_CLOSED == "closed"
POST_DELETED == "deleted"
POST_STATUS_TYPES == {POST_OPEN, POST_CLOSED, POST_DELETED}

VOTE_UP == "up"
VOTE_DOWN == "down"
VOTE_ACCEPT == "accept"
VOTE_BOOKMARK == "bookmark"
VOTE_TYPES == {VOTE_UP, VOTE_DOWN, VOTE_ACCEPT, VOTE_BOOKMARK}

\* OPPOSING_VOTES.get(vote_type): the opposing type, or "" (None) when there is none
OPPOSING_VOTES(vote_type) ==
    CASE vote_type = VOTE_UP -> VOTE_DOWN
      [] vote_type = VOTE_DOWN -> VOTE_UP
      [] OTHER -> ""

USER_NEW == "new"
USER_MODERATOR == "moderator"
USER_ADMIN == "admin"

BADGE_BRONZE == "bronze"
BADGE_SILVER == "silver"
BADGE_GOLD == "gold"

NOTE_USER == "user"
NOTE_MODERATOR == "moderator"

USER_ACTIVE == "active"
USER_SUSPENDED == "suspended"
USER_STATUS_TYPES == {USER_ACTIVE, USER_SUSPENDED}

(***************************************************************************)
(* The users of the site and the inputs the operations draw from           *)
(***************************************************************************)
Users == {"A", "B"}
UserType == [u \in Users |-> IF u = "B" THEN USER_MODERATOR ELSE USER_NEW]
PostIds == 1..MaxOps
\* a null foreign key, an unset primary key, an unset date
None == 0
\* time.mktime(datetime.now()) when the first post is made, and the clock
\* when the n-th post is made: the second post comes within the same second
\* as the first, the later ones more than an hour after them
StartTime == 1300000000
ClockAt(n) == IF n >= 3 THEN StartTime + 4000 ELSE StartTime
\* texts are sequences of tokens: the empty string is <<>>
Contents == {<<>>, <<"text">>}
hours == 1
\* the badges of the site, one of each tier, named by their tier
Badges == {BADGE_BRONZE, BADGE_SILVER, BADGE_GOLD}
\* the requests that may be served at the same time, and the tags of the site
Procs == {1, 2}
Tags == {"tag"}
\* the names a tag string may hold: the tag of the site and one without a row
TagNames == Tags \cup {"new"}
\* the tag strings a view may set on a post: none, one name, a name twice,
\* two names
TagVals == {<<>>, <<"tag">>, <<"new", "new">>, <<"tag", "new">>}
\* the sessions of the site: two of user A and one of a visitor who is not
\* logged in
Sessions == {"s1", "s2", "s3"}
SessionUser(s) == IF s = "s3" THEN "" ELSE "A"
\* the tags an import creates, and the largest count it supplies
Imported == {"imported1", "imported2", "imported3"}
MaxCount == 2

VARIABLES
    posts,      \* Post rows: id -> row
    nextPost,   \* next primary key of Post (AutoField)
    votes,      \* Vote rows: <<author, post, type>> -> number of such rows
    profiles,   \* UserProfile rows: user -> row
    notes,      \* Note rows: a bag of [sender, target, type, unread]
    revisions,  \* PostRevision rows: post id -> sequence of contents, oldest first
    badges,     \* Badge rows: badge -> [type, count]
    awards,     \* Award rows: <<badge, user>> -> number of such rows
    now,        \* the wall clock, in seconds
    log,        \* the signals sent and rows touched by the last operation
    last,       \* the last operation, its arguments and what it saw before acting
    nOps,       \* number of operations so far
    txns,       \* the insert_vote requests in flight: process -> its position and locals
    tags,       \* Tag rows: tag -> count
    tagSets,    \* rows of Post.tag_set.through: post id -> set of tags
    tagTxns,    \* the tag additions in flight: process -> its position and locals
    connected,  \* whether tag_created is connected to post_save of Tag
    creating,   \* the Tag creations in flight: thread -> its position and locals
    sessions    \* request.session[SESSION_VIEW_COUNT]: session -> set of post ids

vars == <<posts, nextPost, votes, profiles, notes, revisions, badges, awards, now, log, last,
          nOps, txns, tags, tagSets, tagTxns, connected, creating, sessions>>

(***************************************************************************)
(* The database as one value, threaded through the handlers                *)
(***************************************************************************)
Db == [posts |-> posts, nextPost |-> nextPost, votes |-> votes, profiles |-> profiles,
       notes |-> notes, revisions |-> revisions, badges |-> badges, awards |-> awards,
       tags |-> tags, tagSets |-> tagSets, now |-> now, log |-> <<>>]

Event(ev, kind, key, dir, created, raw) ==
    [ev |-> ev, kind |-> kind, key |-> key, dir |-> dir, created |-> created, raw |-> raw]

Logged(D, e) == [D EXCEPT !.log = Append(@, e)]

Max(a, b) == IF a > b THEN a ELSE b

\* Post(...): an instance that has not been saved
Post(author, type, root, parent, content, title) ==
    [id |-> None, author |-> author, type |-> type, status |-> POST_OPEN,
     content |-> content, title |-> title, tag_val |-> <<>>,
     views |-> 0, score |-> 0, full_score |-> 0, rank |-> 0,
     creation_date |-> None, root |-> root, parent |-> parent,
     comment_count |-> 0, revision_count |-> 0, answer_count |-> 0,
     accepted |-> FALSE]

\* UserProfile as create_profile makes it
UserProfile(u) ==
    [type |-> UserType[u], status |-> USER_ACTIVE, score |-> 0, new_messages |-> 0,
     bronze_badges |-> 0, silver_badges |-> 0, gold_badges |-> 0]

can_moderate(profile) == profile.type \in {USER_MODERATOR, USER_ADMIN}

top_level(post) == post.type \in POST_TOPLEVEL

\* get_type_display()[0]
TypeInitial(type) ==
    CASE type = POST_QUESTION -> "Q"
      [] type = POST_ANSWER -> "A"
      [] OTHER -> "C"

\* Post.combine: the text a revision is compared on
combine(post) ==
    IF post.type \in POST_CONTENT_ONLY
    THEN post.content
    ELSE <<"TITLE:">> \o post.title \o <<"\n">> \o post.content \o <<"\nTAGS:">> \o post.tag_val

(***************************************************************************)
(* Notes                                                                   *)
(***************************************************************************)
\* a finalize_note that counts every Note, read or not
finalize_note_always(D, note, created) ==
    IF created
    THEN [D EXCEPT !.profiles[note.target].new_messages = @ + 1]
    ELSE D

\* finalize_note: post_save of Note
finalize_note(D, note, created) ==
    IF created /\ note.unread
    THEN [D EXCEPT !.profiles[note.target].new_messages = @ + 1]
    ELSE D

\* Note.objects.create(...)
NoteCreate(D, note) ==
    finalize_note(Logged([D EXCEPT !.notes = @ (+) SetToBag({note})],
                         Event("note", "note", <<note.target, note.type, note.unread>>, 0, TRUE, FALSE)),
                  note, TRUE)

\* send_note: the target's note is always of type NOTE_USER (line 437);
\* the sender's copy carries the type given and is never unread
send_note(D, sender, target, type, unread, both) ==
    LET D1 == NoteCreate(D, [sender |-> sender, target |-> target, type |-> NOTE_USER, unread |-> unread])
    IN IF both
       THEN NoteCreate(D1, [sender |-> sender, target |-> sender, type |-> type, unread |-> FALSE])
       ELSE D1

(***************************************************************************)
(* Saving a Post: pre_save verify_post, the INSERT or UPDATE of the row,   *)
(* then the post_save receivers in the order they were connected:          *)
(* apply_instance (line 653) and finalize_post (line 772).                 *)
(***************************************************************************)
RECURSIVE PostSave(_, _, _)

\* a verify_post that asks a child for its parent only
verify_post_lenient(instance, clock) ==
    LET date == IF instance.creation_date = None THEN clock ELSE instance.creation_date
    IN [ok |-> instance.type \in POST_TOPLEVEL \/ instance.parent # None,
        inst |-> [instance EXCEPT !.creation_date = date,
                                  !.rank = IF @ = 0 THEN date ELSE @]]

\* verify_post: pre_save of Post. ok is FALSE when the assertion fails.
verify_post(instance, clock) ==
    LET date == IF instance.creation_date = None THEN clock ELSE instance.creation_date
    IN [ok |-> instance.type \in POST_TOPLEVEL
               \/ (instance.root # None /\ instance.parent # None),
        inst |-> [instance EXCEPT !.creation_date = date,
                                  !.rank = IF @ = 0 THEN date ELSE @]]

\* a Post.apply that counts a child up whatever the direction
PostApply_up(D, self, dir) ==
    IF self.type = POST_ANSWER
    THEN PostSave(D, [D.posts[self.parent] EXCEPT !.answer_count = @ + 1], FALSE).db
    ELSE IF self.type = POST_COMMENT
    THEN PostSave(D, [D.posts[self.parent] EXCEPT !.comment_count = @ + 1], FALSE).db
    ELSE D

\* Post.apply: the parent is the related object of the instance
PostApply(D, self, dir) ==
    IF self.type = POST_ANSWER
    THEN PostSave(D, [D.posts[self.parent] EXCEPT !.answer_count = @ + dir], FALSE).db
    ELSE IF self.type = POST_COMMENT
    THEN PostSave(D, [D.posts[self.parent] EXCEPT !.comment_count = @ + dir], FALSE).db
    ELSE D

\* a user_score_change that only ever adds
user_score_change_add(D, user, cache, amount) ==
    LET profile == IF cache = {} THEN D.profiles[user] ELSE CHOOSE c \in cache : TRUE
    IN [D EXCEPT !.profiles[user] = [profile EXCEPT !.score = @ + 1]]

\* user_score_change(user, amount); cache is user.profile if the user instance
\* has it loaded already ({} if not: it is then read from the database).
\* save() writes every field of the instance.
user_score_change(D, user, cache, amount) ==
    LET profile == IF cache = {} THEN D.profiles[user] ELSE CHOOSE c \in cache : TRUE
    IN [D EXCEPT !.profiles[user] = [profile EXCEPT !.score = @ + amount]]

\* a post_score_change that forgets the root's full_score
post_score_change_noroot(D, post, root, amount) ==
    LET gain == 3600 * hours
        p1 == [post EXCEPT !.rank = @ + amount * gain,
                           !.score = @ + amount,
                           !.full_score = IF post.id = root.id THEN @ + amount ELSE @]
        Root(s1) ==
            IF post.id # root.id
            THEN LET r1 == [root EXCEPT !.rank = IF s1.inst.rank > @ THEN s1.inst.rank ELSE @]
                     Done(s2) == [db |-> s2.db, post |-> s1.inst, root |-> s2.inst]
                 IN Done(PostSave(s1.db, r1, FALSE))
            ELSE [db |-> s1.db, post |-> s1.inst, root |-> root]
    IN Root(PostSave(D, p1, FALSE))

\* a post_score_change that copies the post's rank to the root unconditionally
post_score_change_copyrank(D, post, root, amount) ==
    LET gain == 3600 * hours
        p1 == [post EXCEPT !.rank = @ + amount * gain,
                           !.score = @ + amount,
                           !.full_score = IF post.id = root.id THEN @ + amount ELSE @]
        Root(s1) ==
            IF post.id # root.id
            THEN LET r1 == [root EXCEPT !.full_score = @ + amount, !.rank = s1.inst.rank]
                     Done(s2) == [db |-> s2.db, post |-> s1.inst, root |-> s2.inst]
                 IN Done(PostSave(s1.db, r1, FALSE))
            ELSE [db |-> s1.db, post |-> s1.inst, root |-> root]
    IN Root(PostSave(D, p1, FALSE))

\* post_score_change(post, amount, hours=1); root is post.root, the related
\* object cached on the post instance. Returns the instances as they are left.
post_score_change(D, post, root, amount) ==
    LET gain == 3600 * hours
        p1 == [post EXCEPT !.rank = @ + amount * gain,
                           !.score = @ + amount,
                           !.full_score = IF post.id = root.id THEN @ + amount ELSE @]
        Root(s1) ==
            IF post.id # root.id
            THEN LET r1 == [root EXCEPT !.full_score = @ + amount,
                                        !.rank = IF s1.inst.rank > @ THEN s1.inst.rank ELSE @]
                     Done(s2) == [db |-> s2.db, post |-> s1.inst, root |-> s2.inst]
                 IN Done(PostSave(s1.db, r1, FALSE))
            ELSE [db |-> s1.db, post |-> s1.inst, root |-> root]
    IN Root(PostSave(D, p1, FALSE))

\* a Vote.apply whose down-vote also takes reputation from the author
VoteApply_downrep(D, self, dir) ==
    LET post == self.post
        root == IF self.rootCache = {} THEN D.posts[post.root]
                ELSE CHOOSE r \in self.rootCache : TRUE
        Scored(r, rep) ==
            [db |-> IF rep = 0 THEN r.db
                    ELSE user_score_change(r.db, post.author, self.profCache, rep),
             inst |-> [self EXCEPT !.post = r.post, !.rootCache = {r.root}]]
        Accepted(s1, s2) ==
            [db |-> s2.db, inst |-> [self EXCEPT !.post = s1.inst, !.rootCache = {s2.inst}]]
        AcceptRoot(s1) ==
            Accepted(s1, PostSave(s1.db, [root EXCEPT !.accepted = (dir = 1)], FALSE))
    IN CASE self.type \in {VOTE_UP, VOTE_DOWN} ->
              LET sign == IF self.type = VOTE_UP THEN dir ELSE -dir
              IN Scored(post_score_change(D, post, root, sign), sign)
         [] self.type = VOTE_ACCEPT ->
              AcceptRoot(PostSave(D, [post EXCEPT !.accepted = (dir = 1)], FALSE))
         [] OTHER -> [db |-> D, inst |-> [self EXCEPT !.rootCache = {root}]]

\* Vote.apply. self is a Vote instance: [author, type, post, rootCache,
\* profCache], where post is the Post instance the vote holds, rootCache the
\* related object post.root if that instance has already loaded it ({} if
\* not: it is then read from the database here, line 556) and profCache the
\* related object post.author.profile if the post was fetched with it
\* (select_related of AllManager and OpenManager, lines 122-130).
VoteApply(D, self, dir) ==
    LET post == self.post
        root == IF self.rootCache = {} THEN D.posts[post.root]
                ELSE CHOOSE r \in self.rootCache : TRUE
        Scored(r, rep) ==
            [db |-> IF rep = 0 THEN r.db
                    ELSE user_score_change(r.db, post.author, self.profCache, rep),
             inst |-> [self EXCEPT !.post = r.post, !.rootCache = {r.root}]]
        Accepted(s1, s2) ==
            [db |-> s2.db, inst |-> [self EXCEPT !.post = s1.inst, !.rootCache = {s2.inst}]]
        AcceptRoot(s1) ==
            Accepted(s1, PostSave(s1.db, [root EXCEPT !.accepted = (dir = 1)], FALSE))
    IN CASE self.type = VOTE_UP ->
              Scored(post_score_change(D, post, root, dir), dir)
         [] self.type = VOTE_DOWN ->
              Scored(post_score_change(D, post, root, -dir), 0)
         [] self.type = VOTE_ACCEPT ->
              AcceptRoot(PostSave(D, [post EXCEPT !.accepted = (dir = 1)], FALSE))
         [] OTHER -> [db |-> D, inst |-> [self EXCEPT !.rootCache = {root}]]

\* Award.apply: the profile is read by user.get_profile(), the badge is the
\* related object of the award
AwardApply(D, self, dir) ==
    LET type == D.badges[self.badge].type
    IN [D EXCEPT
          !.profiles[self.user].bronze_badges = IF type = BADGE_BRONZE THEN @ + dir ELSE @,
          !.profiles[self.user].silver_badges = IF type = BADGE_SILVER THEN @ + dir ELSE @,
          !.profiles[self.user].gold_badges = IF type = BADGE_GOLD THEN @ + dir ELSE @,
          !.badges[self.badge].count = @ + dir]

\* instance.apply(dir) for the models of MODELS_WITH_APPLY
InstanceApply(D, kind, instance, dir) ==
    LET key == CASE kind = "vote" -> <<instance.author, instance.post.id, instance.type>>
                 [] kind = "award" -> <<instance.badge, instance.user>>
                 [] OTHER -> <<instance.id>>
        D1 == Logged(D, Event("apply", kind, key, dir, FALSE, FALSE))
    IN CASE kind = "post" -> [db |-> PostApply(D1, instance, dir), inst |-> instance]
         [] kind = "vote" -> VoteApply(D1, instance, dir)
         [] kind = "award" -> [db |-> AwardApply(D1, instance, dir), inst |-> instance]

\* an apply_instance that does not look at created
apply_instance_always(D, kind, instance, created, raw) ==
    IF ~raw
    THEN InstanceApply(D, kind, instance, 1)
    ELSE [db |-> D, inst |-> instance]

\* apply_instance: post_save of Post, Vote and Award
apply_instance(D, kind, instance, created, raw) ==
    IF created /\ ~raw
    THEN InstanceApply(D, kind, instance, 1)
    ELSE [db |-> D, inst |-> instance]

\* an unapply_instance that was never connected
unapply_instance_off(D, kind, instance) ==
    [db |-> D, inst |-> instance]

\* unapply_instance: post_delete of Post, Vote and Award
unapply_instance(D, kind, instance) ==
    InstanceApply(D, kind, instance, -1)

RECURSIVE NotifyAll(_, _, _)
\* the loop of post_create_notification over the set of authors
NotifyAll(D, post, targets) ==
    IF targets = {} THEN D
    ELSE LET target == CHOOSE t \in targets : TRUE
         IN NotifyAll(send_note(D, post.author, target, NOTE_USER, target # post.author, FALSE),
                      post, targets \ {target})

\* a post_create_notification that tells every user of the site
post_create_notification_everyone(D, post) ==
    NotifyAll(D, post, Users)

\* post_create_notification
post_create_notification(D, post) ==
    LET root == IF post.root # None THEN D.posts[post.root] ELSE post
        authors == {root.author} \cup
                   {D.posts[c].author : c \in {i \in DOMAIN D.posts : D.posts[i].root = root.id}}
    IN NotifyAll(D, post, authors)

\* a create_revision that does not compare with the last revision
create_revision_always(D, post) ==
    LET D1 == Logged([D EXCEPT !.revisions[post.id] = Append(@, combine(post))],
                     Event("revision", "revision", <<post.id>>, 0, TRUE, FALSE))
    IN PostSave(D1, [post EXCEPT !.revision_count = @ + 1], FALSE)

\* create_revision: returns the database and the post instance as it is left
create_revision(D, post) ==
    LET revs == D.revisions[post.id]
        content == combine(post)
        prev == IF Len(revs) > 0 THEN revs[Len(revs)] ELSE <<>>
    IN IF content # prev
       THEN LET D1 == Logged([D EXCEPT !.revisions[post.id] = Append(@, content)],
                             Event("revision", "revision", <<post.id>>, 0, TRUE, FALSE))
            IN PostSave(D1, [post EXCEPT !.revision_count = @ + 1], FALSE)
       ELSE [db |-> D, inst |-> post, ok |-> TRUE]

\* a finalize_post that makes no revision of a new post
finalize_post_norevision(D, instance, created, raw) ==
    IF ~created THEN [db |-> D, inst |-> instance]
    ELSE
      LET repair == instance.root = None \/ instance.parent = None \/ instance.title = <<>>
          parent == IF instance.parent = None THEN instance.id ELSE instance.parent
          ptitle == IF parent = instance.id THEN instance.title ELSE D.posts[parent].title
          i1 == [instance EXCEPT !.root = IF @ = None THEN instance.id ELSE @,
                                 !.parent = parent,
                                 !.title = IF @ = <<>>
                                           THEN <<TypeInitial(instance.type), ": ">> \o ptitle
                                           ELSE @]
          Notify(s1) ==
              IF s1.inst.content # <<>> /\ ~raw
              THEN [db |-> post_create_notification(s1.db, s1.inst), inst |-> s1.inst]
              ELSE [db |-> s1.db, inst |-> s1.inst]
      IN Notify(IF repair THEN PostSave(D, i1, FALSE)
                ELSE [db |-> D, inst |-> instance, ok |-> TRUE])

\* finalize_post: post_save of Post
finalize_post(D, instance, created, raw) ==
    IF ~created THEN [db |-> D, inst |-> instance]
    ELSE
      LET repair == instance.root = None \/ instance.parent = None \/ instance.title = <<>>
          parent == IF instance.parent = None THEN instance.id ELSE instance.parent
          ptitle == IF parent = instance.id THEN instance.title ELSE D.posts[parent].title
          i1 == [instance EXCEPT !.root = IF @ = None THEN instance.id ELSE @,
                                 !.parent = parent,
                                 !.title = IF @ = <<>>
                                           THEN <<TypeInitial(instance.type), ": ">> \o ptitle
                                           ELSE @]
          Revise(c) == [db |-> c.db, inst |-> c.inst]
          Notify(s1) ==
              IF s1.inst.content # <<>> /\ ~raw
              THEN IF s1.inst.type # POST_COMMENT
                   THEN Revise(create_revision(post_create_notification(s1.db, s1.inst), s1.inst))
                   ELSE [db |-> post_create_notification(s1.db, s1.inst), inst |-> s1.inst]
              ELSE [db |-> s1.db, inst |-> s1.inst]
      IN Notify(IF repair THEN PostSave(D, i1, FALSE)
                ELSE [db |-> D, inst |-> instance, ok |-> TRUE])

\* Model.save() of a Post instance. created is decided as Django decides it:
\* the instance has no primary key, or no row with its primary key exists.
PostSave(D, instance, raw) ==
    LET v == verify_post(instance, D.now)
    IN IF ~v.ok THEN [db |-> D, inst |-> instance, ok |-> FALSE]
       ELSE
         LET created == v.inst.id \notin DOMAIN D.posts
             id == IF v.inst.id = None THEN D.nextPost ELSE v.inst.id
             i1 == [v.inst EXCEPT !.id = id]
             D1 == Logged([D EXCEPT !.posts = [x \in DOMAIN @ \cup {id} |->
                                                 IF x = id THEN i1 ELSE @[x]],
                                    !.revisions = IF created THEN [x \in DOMAIN @ \cup {id} |->
                                                 IF x = id THEN <<>> ELSE @[x]] ELSE @,
                                    !.tagSets = IF created THEN [x \in DOMAIN @ \cup {id} |->
                                                 IF x = id THEN {} ELSE @[x]] ELSE @,
                                    !.nextPost = IF v.inst.id = None THEN @ + 1 ELSE @],
                          Event("save", "post", <<id>>, 0, created, raw))
             Saved(f) == [db |-> f.db, inst |-> f.inst, ok |-> TRUE]
             Finalize(a) == Saved(finalize_post(a.db, a.inst, created, raw))
         IN Finalize(apply_instance(D1, "post", i1, created, raw))

(***************************************************************************)
(* Votes                                                                   *)
(***************************************************************************)
VoteKey(vote) == <<vote.author, vote.post.id, vote.type>>

\* Model.save() of a Vote instance (Vote.objects.create is Vote(...).save()):
\* the row is inserted when the instance has not been saved before, then
\* post_save is sent to apply_instance. raw is TRUE when a fixture is loaded.
VoteSave(D, vote, raw) ==
    LET created == ~vote.saved
        v1 == [vote EXCEPT !.saved = TRUE]
        D1 == Logged(IF created THEN [D EXCEPT !.votes[VoteKey(vote)] = @ + 1] ELSE D,
                     Event("save", "vote", VoteKey(vote), 0, created, raw))
    IN apply_instance(D1, "vote", v1, created, raw)

\* vote.delete() for a vote that a query returned: the row goes (if it is
\* still there), then post_delete is sent to unapply_instance. The instance
\* came from a query, so its post and the post's root are loaded when
\* Vote.apply first touches them.
VoteDelete(D, author, post_id, type) ==
    LET key == <<author, post_id, type>>
        D1 == Logged([D EXCEPT !.votes[key] = IF @ > 0 THEN @ - 1 ELSE 0],
                     Event("delete", "vote", key, 0, FALSE, FALSE))
        vote == [author |-> author, type |-> type, saved |-> TRUE,
                 post |-> D1.posts[post_id], rootCache |-> {}, profCache |-> {}]
    IN unapply_instance(D1, "vote", vote)

RECURSIVE DeleteVotes(_, _, _, _, _, _)
\* for vote in votes: vote.delete(), over the n votes a query returned;
\* returns the database and the last vote instance of the loop
DeleteVotes(D, author, post_id, type, n, vote) ==
    IF n = 0 THEN [db |-> D, inst |-> vote]
    ELSE LET Rest(r) == DeleteVotes(r.db, author, post_id, type, n - 1, r.inst)
         IN Rest(VoteDelete(D, author, post_id, type))

\* an insert_vote that keeps voting on the post instance it was given
insert_vote_new_stale(D, post, cache, user, vote_type) ==
    LET opposing == OPPOSING_VOTES(vote_type)
        caller == [author |-> user, type |-> vote_type, saved |-> FALSE,
                   post |-> post, rootCache |-> {}, profCache |-> cache]
        n == IF opposing # "" THEN D.votes[<<user, post.id, opposing>>] ELSE 0
        Again(c) == VoteSave(c.db, c.inst, FALSE).db
        Create(d) == Again(VoteSave(d.db, caller, FALSE))
    IN Create(DeleteVotes(D, user, post.id, opposing, n, caller))

\* an insert_vote that leaves the opposing votes alone
insert_vote_new_keep(D, post, cache, user, vote_type) ==
    LET caller == [author |-> user, type |-> vote_type, saved |-> FALSE,
                   post |-> post, rootCache |-> {}, profCache |-> cache]
        Again(c) == VoteSave(c.db, c.inst, FALSE).db
    IN Again(VoteSave(D, caller, FALSE))

\* insert_vote, from line 584 on: no vote of this type was found
insert_vote_new(D, post, cache, user, vote_type) ==
    LET opposing == OPPOSING_VOTES(vote_type)
        caller == [author |-> user, type |-> vote_type, saved |-> FALSE,
                   post |-> post, rootCache |-> {}, profCache |-> cache]
        n == IF opposing # "" THEN D.votes[<<user, post.id, opposing>>] ELSE 0
        Again(c) == VoteSave(c.db, c.inst, FALSE).db
        \* post = vote.post: the instance the last deleted vote updated
        Create(d) ==
            Again(VoteSave(d.db, [caller EXCEPT !.post = d.inst.post,
                                                !.rootCache = d.inst.rootCache,
                                                !.profCache = d.inst.profCache], FALSE))
    IN Create(DeleteVotes(D, user, post.id, opposing, n, caller))

\* an insert_vote that takes back only the first of the votes it found
insert_vote_first(D, post, cache, user, vote_type, found) ==
    IF found > 0
    THEN DeleteVotes(D, user, post.id, vote_type, 1, <<>>).db
    ELSE insert_vote_new(D, post, cache, user, vote_type)

\* insert_vote(post, user, vote_type); post is the instance the caller
\* fetched, cache its author's profile if it was fetched with it, found the
\* number of votes the query of line 575 returned
insert_vote(D, post, cache, user, vote_type, found) ==
    IF found > 0
    THEN DeleteVotes(D, user, post.id, vote_type, found, <<>>).db
    ELSE insert_vote_new(D, post, cache, user, vote_type)

(***************************************************************************)
(* Awards                                                                  *)
(***************************************************************************)
\* Model.save() of an Award instance: pre_save create_award sets the date,
\* the row is inserted, post_save is sent to apply_instance
AwardSave(D, award, raw) ==
    LET created == ~award.saved
        a1 == [award EXCEPT !.saved = TRUE]
        key == <<award.badge, award.user>>
        D1 == Logged(IF created THEN [D EXCEPT !.awards[key] = @ + 1] ELSE D,
                     Event("save", "award", key, 0, created, raw))
    IN apply_instance(D1, "award", a1, created, raw)

\* award.delete(): the row goes, then post_delete is sent
AwardDelete(D, badge, user) ==
    LET key == <<badge, user>>
        D1 == Logged([D EXCEPT !.awards[key] = IF @ > 0 THEN @ - 1 ELSE 0],
                     Event("delete", "award", key, 0, FALSE, FALSE))
    IN unapply_instance(D1, "award", [badge |-> badge, user |-> user, saved |-> TRUE])

(***************************************************************************)
(* Tags.  Post.tag_set is a ManyToManyField: its add, remove and clear send *)
(* m2m_changed to tags_changed (line 779) with the actions pre_add/post_add,*)
(* pre_remove/post_remove and pre_clear/post_clear.                         *)
(***************************************************************************)
\* a tags_changed that counts a tag once more for every post_add
tags_changed_twice(D, instance, action, pk_set) ==
    IF action = "post_add"
    THEN [D EXCEPT !.tags = [t \in DOMAIN @ |-> IF t \in pk_set THEN @[t] + 2 ELSE @[t]]]
    ELSE D

\* tags_changed: each tag is read, changed and saved in turn
tags_changed(D, instance, action, pk_set) ==
    CASE action = "post_add" ->
           [D EXCEPT !.tags = [t \in DOMAIN @ |-> IF t \in pk_set THEN @[t] + 1 ELSE @[t]]]
      [] action = "post_delete" ->
           [D EXCEPT !.tags = [t \in DOMAIN @ |-> IF t \in pk_set THEN @[t] - 1 ELSE @[t]]]
      [] action = "pre_clear" ->
           [D EXCEPT !.tags = [t \in DOMAIN @ |->
                                 IF t \in D.tagSets[instance.id] THEN @[t] - 1 ELSE @[t]]]
      [] OTHER -> D

\* post.tag_set.clear()
TagSetClear(D, instance) ==
    LET D1 == tags_changed(D, instance, "pre_clear", {})
    IN tags_changed([D1 EXCEPT !.tagSets[instance.id] = {}], instance, "post_clear", {})

\* post.tag_set.add(*tags): the tags not yet in the set are added
TagSetAdd(D, instance, objs) ==
    LET new_ids == objs \ D.tagSets[instance.id]
        D1 == tags_changed(D, instance, "pre_add", new_ids)
    IN tags_changed([D1 EXCEPT !.tagSets[instance.id] = @ \cup new_ids],
                    instance, "post_add", new_ids)

\* post.tag_set.remove(*tags)
TagSetRemove(D, instance, objs) ==
    LET D1 == tags_changed(D, instance, "pre_remove", objs)
    IN tags_changed([D1 EXCEPT !.tagSets[instance.id] = @ \ objs],
                    instance, "post_remove", objs)

\* tag_created: post_save of Tag, for a save that no other save interleaves
tag_created(count, created) ==
    IF created /\ count # 0 THEN 0 ELSE count

RECURSIVE GetOrCreateAll(_, _)
\* [Tag.objects.get_or_create(name=name)[0] for name in names]: a Tag that is
\* missing is created with the default count
GetOrCreateAll(D, names) ==
    IF names = <<>> THEN D
    ELSE LET name == Head(names)
         IN GetOrCreateAll(IF name \in DOMAIN D.tags THEN D
                           ELSE [D EXCEPT !.tags = [t \in DOMAIN @ \cup {name} |->
                                     IF t = name THEN tag_created(0, TRUE) ELSE @[t]]],
                           Tail(names))

\* get_tag_names: the names of the tag string, in order, repeats kept
get_tag_names(post) == post.tag_val

\* Post.set_tags
set_tags(D, self) ==
    IF self.type \notin POST_CONTENT_ONLY
    THEN LET names == get_tag_names(self)
             D1 == GetOrCreateAll(TagSetClear(D, self), names)
         IN PostSave(TagSetAdd(D1, self, {names[i] : i \in DOMAIN names}), self, FALSE).db
    ELSE D

(***************************************************************************)
(* Moderation                                                              *)
(***************************************************************************)
\* post.delete(): the row goes and with it the rows that refer to it, its
\* revisions and its rows of tag_set.through (no m2m_changed is sent for
\* those); then post_delete is sent
PostDelete(D, post) ==
    LET keep == DOMAIN D.posts \ {post.id}
        D1 == Logged([D EXCEPT !.posts = [x \in keep |-> @[x]],
                               !.revisions = [x \in keep |-> @[x]],
                               !.tagSets = [x \in keep |-> @[x]]],
                     Event("delete", "post", <<post.id>>, 0, FALSE, FALSE))
    IN unapply_instance(D1, "post", post).db

RECURSIVE DeleteAllVotes(_, _, _)
\* Vote.objects.filter(post=post).delete(): every vote on the post
DeleteAllVotes(D, post_id, keys) ==
    IF keys = {} THEN D
    ELSE LET k == CHOOSE x \in keys : TRUE
         IN DeleteAllVotes(DeleteVotes(D, k[1], post_id, k[3], D.votes[k], <<>>).db,
                           post_id, keys \ {k})

\* a post_moderate that destroys a post whatever posts it is the parent of
post_moderate_orphaning(D, post, user, status, authorized) ==
    IF status = POST_OPEN /\ ~can_moderate(D.profiles[user]) THEN D
    ELSE IF ~authorized THEN D
    ELSE IF status = POST_DELETED /\ user = post.author
         THEN PostDelete(DeleteAllVotes(D, post.id,
                            {k \in DOMAIN D.votes : k[2] = post.id /\ D.votes[k] > 0}),
                         post)
         ELSE LET s == PostSave(D, [post EXCEPT !.status = status], FALSE)
              IN send_note(s.db, user, post.author, NOTE_MODERATOR, TRUE, TRUE)

\* a post_moderate that does not ask auth.authorize_post_edit
post_moderate_unchecked(D, post, user, status, authorized) ==
    IF status = POST_OPEN /\ ~can_moderate(D.profiles[user]) THEN D
    ELSE
      LET no_orphans == {i \in DOMAIN D.posts : D.posts[i].parent = post.id /\ i # post.id} = {}
      IN IF status = POST_DELETED /\ no_orphans /\ user = post.author
         THEN PostDelete(DeleteAllVotes(D, post.id,
                            {k \in DOMAIN D.votes : k[2] = post.id /\ D.votes[k] > 0}),
                         post)
         ELSE LET s == PostSave(D, [post EXCEPT !.status = status], FALSE)
              IN send_note(s.db, user, post.author, NOTE_MODERATOR, TRUE, TRUE)

\* a post_moderate that lets anyone who may edit a post destroy it
post_moderate_anyone(D, post, user, status, authorized) ==
    IF status = POST_OPEN /\ ~can_moderate(D.profiles[user]) THEN D
    ELSE IF ~authorized THEN D
    ELSE
      LET no_orphans == {i \in DOMAIN D.posts : D.posts[i].parent = post.id /\ i # post.id} = {}
      IN IF status = POST_DELETED /\ no_orphans
         THEN PostDelete(DeleteAllVotes(D, post.id,
                            {k \in DOMAIN D.votes : k[2] = post.id /\ D.votes[k] > 0}),
                         post)
         ELSE LET s == PostSave(D, [post EXCEPT !.status = status], FALSE)
              IN send_note(s.db, user, post.author, NOTE_MODERATOR, TRUE, TRUE)

\* post_moderate(request, post, user, status); authorized is the answer of
\* auth.authorize_post_edit(user, post)
post_moderate(D, post, user, status, authorized) ==
    IF status = POST_OPEN /\ ~can_moderate(D.profiles[user]) THEN D
    ELSE IF ~authorized THEN D
    ELSE
      LET no_orphans == {i \in DOMAIN D.posts : D.posts[i].parent = post.id /\ i # post.id} = {}
      IN IF status = POST_DELETED /\ no_orphans /\ user = post.author
         THEN PostDelete(DeleteAllVotes(D, post.id,
                            {k \in DOMAIN D.votes : k[2] = post.id /\ D.votes[k] > 0}),
                         post)
         ELSE LET s == PostSave(D, [post EXCEPT !.status = status], FALSE)
              IN send_note(s.db, user, post.author, NOTE_MODERATOR, TRUE, TRUE)

\* an update_post_views that does not look at the session
update_post_views_always(D, post, viewed, anonymous, amount) ==
    IF anonymous THEN [db |-> D, viewed |-> viewed]
    ELSE [db |-> [D EXCEPT !.posts = [i \in DOMAIN @ |->
                                        IF i = post.id
                                        THEN [@[i] EXCEPT !.views = @ + 1, !.rank = @ + amount]
                                        ELSE @[i]]],
          viewed |-> viewed \cup {post.id}]

\* update_post_views(post, request, amount): viewed is what the session holds
\* under SESSION_VIEW_COUNT, anonymous what request.user.is_anonymous() gives.
\* The UPDATE is made on the row, without save() and its signals.
update_post_views(D, post, viewed, anonymous, amount) ==
    IF anonymous THEN [db |-> D, viewed |-> viewed]
    ELSE IF post.id \notin viewed
    THEN [db |-> [D EXCEPT !.posts = [i \in DOMAIN @ |->
                                        IF i = post.id
                                        THEN [@[i] EXCEPT !.views = @ + 1, !.rank = @ + amount]
                                        ELSE @[i]]],
          viewed |-> viewed \cup {post.id}]
    ELSE [db |-> D, viewed |-> viewed]

\* user_moderate(user, target, status); moderator is what user.can_moderate
\* gives and authorized the answer of auth.authorize_user_edit(user, target)
user_moderate(D, user, target, status, moderator, authorized) ==
    IF ~moderator THEN D
    ELSE IF ~authorized THEN D
    ELSE send_note([D EXCEPT !.profiles[target].status = status],
                   user, target, NOTE_MODERATOR, TRUE, TRUE)

(***************************************************************************)
(* The operations, each a whole request                                    *)
(***************************************************************************)
\* what the last operation saw of its post before it acted
Snapshot(p) ==
    IF p \in DOMAIN posts
    THEN LET r == posts[p].root
         IN [score |-> posts[p].score, rank |-> posts[p].rank, root |-> r,
             full_score |-> posts[r].full_score, root_rank |-> posts[r].rank,
             author |-> posts[p].author, reputation |-> profiles[posts[p].author].score]
    ELSE [score |-> 0, rank |-> 0, root |-> None, full_score |-> 0, root_rank |-> 0,
          author |-> "", reputation |-> 0]

\* what is kept of the operation before the last one, when that was an
\* insert_vote with the same arguments
NoBefore == [same |-> FALSE, found |-> 0, opposing |-> 0, pre |-> Snapshot(None)]

NoOp == [op |-> "none", post |-> None, user |-> "", type |-> "", found |-> 0,
         opposing |-> 0, pre |-> Snapshot(None), before |-> NoBefore]

Commit(D) ==
    /\ posts' = D.posts
    /\ nextPost' = D.nextPost
    /\ votes' = D.votes
    /\ profiles' = D.profiles
    /\ notes' = D.notes
    /\ revisions' = D.revisions
    /\ badges' = D.badges
    /\ awards' = D.awards
    /\ tags' = D.tags
    /\ tagSets' = D.tagSets
    /\ log' = D.log

Remember(rec) == last' = rec

\* a request that is not being served
Idle == [pc |-> "idle", post |-> None, cache |-> {}, user |-> "", type |-> "", found |-> 0,
         opposing |-> 0, pre |-> Snapshot(None)]

\* the operation runs while no insert_vote request is in flight; what is kept
\* of the requests that have finished is dropped
Quiet ==
    /\ \A p \in Procs : txns[p].pc \in {"idle", "done"}
    /\ txns' = [p \in Procs |-> Idle]
    /\ UNCHANGED <<tagTxns, connected, creating>>

\* an operation that does not touch any session
Alone == Quiet /\ UNCHANGED sessions

Init ==
    /\ posts = <<>>
    /\ nextPost = 1
    /\ votes = [k \in Users \X PostIds \X VOTE_TYPES |-> 0]
    /\ profiles = [u \in Users |-> UserProfile(u)]
    /\ notes = EmptyBag
    /\ revisions = <<>>
    /\ badges = [b \in Badges |-> [type |-> b, count |-> 0]]
    /\ awards = [k \in Badges \X Users |-> 0]
    /\ now = StartTime
    /\ log = <<>>
    /\ last = NoOp
    /\ nOps = 0
    /\ txns = [p \in Procs |-> Idle]
    /\ tags = [t \in Tags |-> 0]
    /\ tagSets = <<>>
    /\ tagTxns = [p \in Procs |-> [pc |-> "idle", tag |-> "", seen |-> 0]]
    /\ connected = TRUE
    /\ creating = [p \in Procs |-> [pc |-> "idle", name |-> "", count |-> 0]]
    /\ sessions = [s \in Sessions |-> {}]

\* a view creates a post: Post(...).save()
DoCreatePost(author, type, parent, content, raw) ==
    LET D == [Db EXCEPT !.now = ClockAt(nextPost)]
        root == IF parent = None THEN None ELSE posts[parent].root
        title == IF type \in POST_TOPLEVEL THEN <<"title">> ELSE <<>>
        Done(s) ==
            /\ now' = IF s.ok THEN D.now ELSE now
            /\ Commit(IF s.ok THEN s.db
                      ELSE [Db EXCEPT !.log = <<Event("rejected", "post", <<>>, 0, FALSE, raw)>>])
            /\ Remember([NoOp EXCEPT !.op = "create_post",
                                      !.post = IF s.ok THEN s.inst.id ELSE None,
                                      !.user = author, !.type = type])
    IN /\ nOps < MaxOps
       /\ Alone
       /\ nOps' = nOps + 1
       /\ Done(PostSave(D, Post(author, type, root, parent, content, title), raw))

CreatePost ==
    \E author \in Users, type \in POST_TYPES, parent \in DOMAIN posts \cup {None},
       content \in Contents :
        /\ type \in POST_TOPLEVEL => parent = None
        /\ DoCreatePost(author, type, parent, content, FALSE)

\* a view casts a vote: it fetches the post and calls insert_vote
InsertVote ==
    \E p \in DOMAIN posts, user \in Users, vote_type \in VOTE_TYPES :
        LET found == votes[<<user, p, vote_type>>]
            opposing == OPPOSING_VOTES(vote_type)
        IN /\ nOps < MaxOps
           /\ Alone
           /\ nOps' = nOps + 1
           /\ Commit(insert_vote(Db, posts[p], {}, user, vote_type, found))
           /\ Remember([NoOp EXCEPT !.op = "insert_vote", !.post = p, !.user = user,
                                     !.type = vote_type, !.found = found,
                                     !.opposing = IF opposing = "" THEN 0
                                                  ELSE votes[<<user, p, opposing>>],
                                     !.pre = Snapshot(p),
                                     !.before = IF /\ last.op = "insert_vote" /\ last.post = p
                                                   /\ last.user = user /\ last.type = vote_type
                                                THEN [same |-> TRUE, found |-> last.found,
                                                      opposing |-> last.opposing, pre |-> last.pre]
                                                ELSE NoBefore])
           /\ UNCHANGED now

\* a view moderates a post: it fetches the post and calls post_moderate
PostModerate ==
    \E p \in DOMAIN posts, user \in Users, status \in POST_STATUS_TYPES, authorized \in BOOLEAN :
        /\ nOps < MaxOps
        /\ Alone
        /\ nOps' = nOps + 1
        /\ Commit(post_moderate(Db, posts[p], user, status, authorized))
        /\ Remember([NoOp EXCEPT !.op = "post_moderate", !.post = p, !.user = user,
                                  !.type = status, !.found = IF authorized THEN 1 ELSE 0,
                                  !.pre = Snapshot(p)])
        /\ UNCHANGED now

\* a view creates an answer or comment and gives it only a root, or only a
\* parent
CreatePartial ==
    \E author \in Users, type \in POST_TYPES \ POST_TOPLEVEL, parent \in DOMAIN posts,
       given \in {"root", "parent"}, content \in Contents :
        LET D == [Db EXCEPT !.now = ClockAt(nextPost)]
            Done(s) ==
                /\ now' = IF s.ok THEN D.now ELSE now
                /\ Commit(IF s.ok THEN s.db
                          ELSE [Db EXCEPT !.log = <<Event("rejected", "post", <<>>, 0,
                                                          FALSE, FALSE)>>])
                /\ Remember([NoOp EXCEPT !.op = "create_partial",
                                          !.post = IF s.ok THEN s.inst.id ELSE None,
                                          !.user = author, !.type = type])
        IN /\ nOps < MaxOps
           /\ Alone
           /\ nOps' = nOps + 1
           /\ Done(PostSave(D, Post(author, type,
                                    IF given = "root" THEN posts[parent].root ELSE None,
                                    IF given = "parent" THEN parent ELSE None,
                                    content, <<>>), FALSE))

Next == CreatePost \/ CreatePartial \/ InsertVote \/ PostModerate

Spec == Init /\ [][Next]_vars

\* a view casts an accept vote
AcceptVote == InsertVote /\ last'.type = VOTE_ACCEPT

NextAccept == CreatePost \/ AcceptVote

SpecAccept == Init /\ [][NextAccept]_vars

(***************************************************************************)
(* Awards and fixtures: the other ways rows of the models with apply() are *)
(* created and deleted.  A fixture is loaded with raw = TRUE.              *)
(***************************************************************************)
\* Award.objects.create(badge=badge, user=user)
CreateAward ==
    \E badge \in Badges, user \in Users :
        /\ nOps < MaxOps
        /\ Alone
        /\ nOps' = nOps + 1
        /\ Commit(AwardSave(Db, [badge |-> badge, user |-> user, saved |-> FALSE], FALSE).db)
        /\ Remember([NoOp EXCEPT !.op = "create_award", !.user = user, !.type = badge])
        /\ UNCHANGED now

\* award.delete() for a stored award
DeleteAward ==
    \E badge \in Badges, user \in Users :
        /\ awards[<<badge, user>>] > 0
        /\ nOps < MaxOps
        /\ Alone
        /\ nOps' = nOps + 1
        /\ Commit(AwardDelete(Db, badge, user).db)
        /\ Remember([NoOp EXCEPT !.op = "delete_award", !.user = user, !.type = badge])
        /\ UNCHANGED now

\* loaddata of a Post
LoadPost ==
    \E author \in Users, type \in POST_TYPES, parent \in DOMAIN posts \cup {None},
       content \in Contents :
        /\ type \in POST_TOPLEVEL <=> parent = None
        /\ DoCreatePost(author, type, parent, content, TRUE)

\* loaddata of a Vote
LoadVote ==
    \E p \in DOMAIN posts, user \in Users, vote_type \in VOTE_TYPES :
        /\ votes[<<user, p, vote_type>>] = 0
        /\ nOps < MaxOps
        /\ Alone
        /\ nOps' = nOps + 1
        /\ Commit(VoteSave(Db, [author |-> user, type |-> vote_type, saved |-> FALSE,
                                 post |-> posts[p], rootCache |-> {},
                                 profCache |-> {}], TRUE).db)
        /\ Remember([NoOp EXCEPT !.op = "load_vote", !.post = p, !.user = user,
                                  !.type = vote_type])
        /\ UNCHANGED now

\* loaddata of an Award
LoadAward ==
    \E badge \in Badges, user \in Users :
        /\ nOps < MaxOps
        /\ Alone
        /\ nOps' = nOps + 1
        /\ Commit(AwardSave(Db, [badge |-> badge, user |-> user, saved |-> FALSE], TRUE).db)
        /\ Remember([NoOp EXCEPT !.op = "load_award", !.user = user, !.type = badge])
        /\ UNCHANGED now

\* the runs with awards and fixtures are one operation shorter
Short == nOps < MaxOps - 1

NextSignals ==
    \/ Short /\ CreatePost
    \/ Short /\ InsertVote
    \/ Short /\ PostModerate
    \/ Short /\ CreateAward
    \/ Short /\ DeleteAward
    \/ Short /\ LoadPost
    \/ Short /\ LoadVote
    \/ Short /\ LoadAward

SpecSignals == Init /\ [][NextSignals]_vars

(***************************************************************************)
(* Editing: the other requests that write posts, tags and profiles.  A view *)
(* that edits a post saves it and calls create_revision; a view that sets   *)
(* the tags of a post sets its tag string and calls set_tags.               *)
(***************************************************************************)
\* a view edits the content of a post
EditPost ==
    \E p \in DOMAIN posts, content \in Contents :
        LET Revise(s) == create_revision(s.db, s.inst).db
        IN /\ nOps < MaxOps
           /\ Alone
           /\ nOps' = nOps + 1
           /\ Commit(Revise(PostSave(Db, [posts[p] EXCEPT !.content = content], FALSE)))
           /\ Remember([NoOp EXCEPT !.op = "edit_post", !.post = p,
                                     !.user = posts[p].author, !.pre = Snapshot(p)])
           /\ UNCHANGED now

\* a view sets the tag string of a post and calls post.set_tags()
SetTags ==
    \E p \in DOMAIN posts, tag_val \in TagVals :
        /\ nOps < MaxOps
        /\ Alone
        /\ nOps' = nOps + 1
        /\ Commit(set_tags(Db, [posts[p] EXCEPT !.tag_val = tag_val]))
        /\ Remember([NoOp EXCEPT !.op = "set_tags", !.post = p, !.user = posts[p].author,
                                  !.pre = Snapshot(p)])
        /\ UNCHANGED now

\* a view takes a tag off a post: post.tag_set.remove(tag)
RemoveTag ==
    \E p \in DOMAIN posts :
        \E tag \in tagSets[p] :
            /\ nOps < MaxOps
            /\ Alone
            /\ nOps' = nOps + 1
            /\ Commit(TagSetRemove(Db, posts[p], {tag}))
            /\ Remember([NoOp EXCEPT !.op = "remove_tag", !.post = p, !.user = posts[p].author,
                                      !.type = tag, !.pre = Snapshot(p)])
            /\ UNCHANGED now

\* a view moderates a user: it calls user_moderate
UserModerate ==
    \E user \in Users, target \in Users, status \in USER_STATUS_TYPES,
       moderator \in BOOLEAN, authorized \in BOOLEAN :
        /\ nOps < MaxOps
        /\ Alone
        /\ nOps' = nOps + 1
        /\ Commit(user_moderate(Db, user, target, status, moderator, authorized))
        /\ Remember([NoOp EXCEPT !.op = "user_moderate", !.user = user, !.type = status,
                                  !.found = IF moderator /\ authorized THEN 1 ELSE 0])
        /\ UNCHANGED now

NextEditing ==
    \/ CreatePost
    \/ PostModerate
    \/ EditPost
    \/ SetTags
    \/ RemoveTag
    \/ UserModerate

SpecEditing == Init /\ [][NextEditing]_vars

(***************************************************************************)
(* Page views: a view shows a post and calls update_post_views with the     *)
(* request, whose session belongs to a user or to a visitor.               *)
(***************************************************************************)
ViewPost ==
    \E p \in DOMAIN posts, s \in Sessions :
        LET Done(r) == Commit(r.db) /\ sessions' = [sessions EXCEPT ![s] = r.viewed]
        IN /\ nOps < MaxOps
           /\ Quiet
           /\ nOps' = nOps + 1
           /\ Done(update_post_views(Db, posts[p], sessions[s], SessionUser(s) = "", 3600))
           /\ Remember([NoOp EXCEPT !.op = "update_post_views", !.post = p,
                                     !.user = SessionUser(s), !.type = s,
                                     !.pre = Snapshot(p)])
           /\ UNCHANGED now

NextViews ==
    \/ Short /\ CreatePost
    \/ Short /\ InsertVote
    \/ Short /\ PostModerate
    \/ Short /\ EditPost
    \/ Short /\ SetTags
    \/ Short /\ RemoveTag
    \/ Short /\ UserModerate
    \/ Short /\ CreateAward
    \/ Short /\ DeleteAward
    \/ Short /\ ViewPost

SpecViews == Init /\ [][NextViews]_vars

(***************************************************************************)
(* Requests served at the same time.  A vote request fetches the post, then *)
(* insert_vote runs the query of line 575 and, as a later step, the rest of *)
(* its body, which commits at its end (commit_on_success, line 569).  A tag *)
(* addition reads the Tag row and, as a later step, saves it with the count *)
(* raised (tags_changed, lines 742-746).                                    *)
(***************************************************************************)
Database == <<posts, nextPost, votes, profiles, notes, revisions, badges, awards, tagSets>>

\* the view fetches the post; Post.all_posts and Post.open_posts fetch the
\* author's profile with it, Post.objects does not (only an up-vote uses the
\* profile).  The requests are alike, so they are numbered as they start.
Begin(p) ==
    \E id \in DOMAIN posts, user \in Users, vote_type \in VOTE_TYPES, cached \in BOOLEAN :
        /\ nOps < MaxOps
        /\ txns[p].pc = "idle"
        /\ \A q \in Procs : q < p => txns[q].pc # "idle"
        /\ cached => vote_type = VOTE_UP
        /\ nOps' = nOps + 1
        /\ txns' = [txns EXCEPT ![p] =
                      [pc |-> "loaded", post |-> posts[id],
                       cache |-> IF cached THEN {profiles[posts[id].author]} ELSE {},
                       user |-> user, type |-> vote_type, found |-> 0, opposing |-> 0,
                       pre |-> Snapshot(id)]]
        /\ UNCHANGED <<Database, now, log, last, tags, tagTxns, connected, creating, sessions>>

\* insert_vote, lines 575-576: the votes of this type are read
Check(p) ==
    LET t == txns[p]
    IN /\ t.pc = "loaded"
       /\ txns' = [txns EXCEPT ![p].pc = "checked",
                                ![p].found = votes[<<t.user, t.post.id, t.type>>]]
       /\ UNCHANGED <<Database, now, log, last, nOps, tags, tagTxns, connected, creating, sessions>>

\* insert_vote, lines 577-595, with the votes read before and the post
\* instance the view fetched
Finish(p) ==
    LET t == txns[p]
        opposing == OPPOSING_VOTES(t.type)
        held == IF opposing = "" THEN 0 ELSE votes[<<t.user, t.post.id, opposing>>]
    IN /\ t.pc = "checked"
       /\ Commit(insert_vote(Db, t.post, t.cache, t.user, t.type, t.found))
       /\ txns' = [txns EXCEPT ![p].pc = "done", ![p].opposing = held]
       /\ Remember([NoOp EXCEPT !.op = "insert_vote_request", !.post = t.post.id,
                                 !.user = t.user, !.type = t.type, !.found = t.found,
                                 !.opposing = held, !.pre = Snapshot(t.post.id)])
       /\ UNCHANGED <<now, nOps, tagTxns, connected, creating, sessions>>

\* tags_changed, action post_add, line 743: tag = Tag.objects.get(pk=pk)
TagGet(p) ==
    \E tag \in Tags :
        /\ nOps < MaxOps
        /\ tagTxns[p].pc = "idle"
        /\ \A q \in Procs : q < p => tagTxns[q].pc # "idle"
        /\ nOps' = nOps + 1
        /\ tagTxns' = [tagTxns EXCEPT ![p] = [pc |-> "read", tag |-> tag, seen |-> tags[tag]]]
        /\ UNCHANGED <<Database, now, log, last, txns, tags, connected, creating, sessions>>

\* tags_changed, action post_add, lines 744-745: tag.count += 1; tag.save()
TagSave(p) ==
    /\ tagTxns[p].pc = "read"
    /\ tags' = [tags EXCEPT ![tagTxns[p].tag] = tagTxns[p].seen + 1]
    /\ tagTxns' = [tagTxns EXCEPT ![p].pc = "done"]
    /\ UNCHANGED <<Database, now, log, last, nOps, txns, connected, creating, sessions>>

NextConcurrent ==
    \/ CreatePost
    \/ InsertVote
    \/ \E p \in Procs : Begin(p)
    \/ \E p \in Procs : Check(p)
    \/ \E p \in Procs : Finish(p)
    \/ \E p \in Procs : TagGet(p)
    \/ \E p \in Procs : TagSave(p)

SpecConcurrent == Init /\ [][NextConcurrent]_vars

(***************************************************************************)
(* Properties                                                              *)
(***************************************************************************)
Voted(type) == last.op = "insert_vote" /\ last.type = type
Reputation(p) == profiles[posts[p].author].score
RootOf(p) == posts[posts[p].root]

RECURSIVE SumScore(_)
SumScore(S) ==
    IF S = {} THEN 0
    ELSE LET i == CHOOSE x \in S : TRUE IN posts[i].score + SumScore(S \ {i})

\* the second of two consecutive insert_vote(post, user, up) calls, the
\* first of which found no up-vote
ToggledBack ==
    /\ Voted(VOTE_UP)
    /\ last.before.same
    /\ last.before.found = 0

Restored ==
    /\ votes[<<last.user, last.post, VOTE_UP>>] = 0
    /\ posts[last.post].score = last.before.pre.score
    /\ posts[last.post].rank = last.before.pre.rank
    /\ Reputation(last.post) = last.before.pre.reputation

\* C1 as stated: for any post and any user with no up-vote on it, two
\* consecutive insert_vote(post, user, up) calls leave no up-vote and restore
\* the post's score and rank and the author's reputation.
C1_ToggleRoundTrip_AsStated == ToggledBack => Restored

\* C1, amended: for any post and any user with neither an up-vote nor a
\* down-vote on it, two consecutive insert_vote(post, user, up) calls leave no
\* up-vote by the user and restore the post's score, the post's rank and the
\* author's reputation to their values before the first call.
C1_ToggleRoundTrip == (ToggledBack /\ last.before.opposing = 0) => Restored

C1_Witness ==
    /\ ToggledBack /\ last.before.opposing = 0 /\ last.found = 1
    /\ posts[last.post].score = last.pre.score - 1

\* C2: casting up over a held down-vote leaves exactly the up-vote, the score
\* 2 higher and the author's reputation 1 higher; casting down over a held
\* up-vote leaves exactly the down-vote, the score 2 lower and the
\* reputation 1 lower.
C2_OpposingReplaced ==
    /\ (Voted(VOTE_UP) /\ last.found = 0 /\ last.opposing = 1) =>
          /\ votes[<<last.user, last.post, VOTE_UP>>] = 1
          /\ votes[<<last.user, last.post, VOTE_DOWN>>] = 0
          /\ posts[last.post].score = last.pre.score + 2
          /\ Reputation(last.post) = last.pre.reputation + 1
    /\ (Voted(VOTE_DOWN) /\ last.found = 0 /\ last.opposing = 1) =>
          /\ votes[<<last.user, last.post, VOTE_DOWN>>] = 1
          /\ votes[<<last.user, last.post, VOTE_UP>>] = 0
          /\ posts[last.post].score = last.pre.score - 2
          /\ Reputation(last.post) = last.pre.reputation - 1

C2_Witness ==
    /\ Voted(VOTE_UP) /\ last.found = 0 /\ last.opposing = 1
    /\ votes[<<last.user, last.post, VOTE_UP>>] = 1
    /\ posts[last.post].root # last.post

\* C3: when insert_vote calls do not interleave, every (user, post) pair has
\* at most one stored vote of each type and never an up-vote and a down-vote
\* at once.
C3_VoteUniqueness ==
    /\ \A k \in DOMAIN votes : votes[k] <= 1
    /\ \A u \in Users, p \in PostIds :
          ~(votes[<<u, p, VOTE_UP>>] > 0 /\ votes[<<u, p, VOTE_DOWN>>] > 0)

C3_Witness ==
    /\ Voted(VOTE_DOWN) /\ last.opposing = 1
    /\ votes[<<last.user, last.post, VOTE_DOWN>>] = 1
    /\ votes[<<last.user, last.post, VOTE_ACCEPT>>] = 1

\* C5: for every root post R, R.full_score is the sum of the scores of R and
\* of all stored posts whose root is R.
C5_FullScore ==
    \A r \in DOMAIN posts :
        posts[r].root = r =>
            posts[r].full_score = SumScore({i \in DOMAIN posts : posts[i].root = r})

C5_Witness ==
    /\ last.op = "post_moderate" /\ last.post \notin DOMAIN posts
    /\ last.pre.score # 0 /\ last.pre.root # last.post
    /\ last.pre.root \in DOMAIN posts

\* a single application of an up- or down-vote by the last insert_vote:
\* direction +1 when the vote was cast, -1 when it was taken back
Applied(type) == Voted(type) /\ last.opposing = 0 /\ last.found <= 1
Direction == IF last.found = 0 THEN 1 ELSE -1

\* C6: an up-vote applied with direction d to a non-root post X changes
\* X.score by d, X.rank by d * 3600 * hours, the reputation of X's author by
\* d and the full_score of X's root by d; the first up-vote on a fresh answer
\* gives score 1, rank + 3600, reputation 1 and full_score 1.
C6_UpVoteEffect ==
    (Applied(VOTE_UP) /\ posts[last.post].root # last.post) =>
        /\ posts[last.post].score = last.pre.score + Direction
        /\ posts[last.post].rank = last.pre.rank + Direction * 3600 * hours
        /\ Reputation(last.post) = last.pre.reputation + Direction
        /\ RootOf(last.post).full_score = last.pre.full_score + Direction

C6_Witness ==
    /\ Applied(VOTE_UP) /\ posts[last.post].root # last.post /\ Direction = 1
    /\ last.pre.score = 0 /\ last.pre.reputation = 0 /\ last.pre.full_score = 0
    /\ posts[last.post].score = 1
    /\ posts[last.post].rank = last.pre.rank + 3600
    /\ Reputation(last.post) = 1
    /\ RootOf(last.post).full_score = 1

\* C7 as stated: a down-vote applied with direction d changes post.score by
\* -d and leaves post.rank, the root's rank and the author's reputation
\* unchanged.
C7_DownVoteFrame_AsStated ==
    Applied(VOTE_DOWN) =>
        /\ posts[last.post].score = last.pre.score - Direction
        /\ posts[last.post].rank = last.pre.rank
        /\ RootOf(last.post).rank = last.pre.root_rank
        /\ Reputation(last.post) = last.pre.reputation

\* C7, amended: a down-vote applied with direction d changes post.score by
\* -d and post.rank by -d * 3600 * hours and leaves the author's reputation
\* unchanged; the root's rank becomes the larger of its old value and the
\* post's new rank.
C7_DownVoteFrame ==
    Applied(VOTE_DOWN) =>
        /\ posts[last.post].score = last.pre.score - Direction
        /\ posts[last.post].rank = last.pre.rank - Direction * 3600 * hours
        /\ Reputation(last.post) = last.pre.reputation
        /\ RootOf(last.post).rank =
              IF posts[last.post].root = last.post THEN posts[last.post].rank
              ELSE Max(last.pre.root_rank, posts[last.post].rank)

C7_Witness ==
    /\ Applied(VOTE_DOWN) /\ Direction = 1
    /\ posts[last.post].score = last.pre.score - 1
    /\ last.pre.reputation > 0
    /\ Reputation(last.post) = last.pre.reputation

\* an up- or down-vote (the votes that go through post_score_change) applied
\* once to a post that is not its own root
ScoredNonRoot ==
    /\ (Applied(VOTE_UP) \/ Applied(VOTE_DOWN))
    /\ posts[last.post].root # last.post

\* C8 as stated: for a vote applied to a post P that is not its root R,
\* R.rank becomes max(old R.rank, new P.rank) if P.rank went up and stays as
\* it was if P.rank did not go up.
C8_RootRank_AsStated ==
    ScoredNonRoot =>
        IF posts[last.post].rank > last.pre.rank
        THEN RootOf(last.post).rank = Max(last.pre.root_rank, posts[last.post].rank)
        ELSE RootOf(last.post).rank = last.pre.root_rank

\* C8, amended: for an up- or down-vote applied to a post P that is not its
\* root R, R.rank becomes max(old R.rank, new P.rank), whether P.rank went up
\* or down.
C8_RootRank ==
    ScoredNonRoot =>
        RootOf(last.post).rank = Max(last.pre.root_rank, posts[last.post].rank)

C8_Witness ==
    /\ Applied(VOTE_UP) /\ Direction = 1
    /\ posts[last.post].root # last.post
    /\ posts[last.post].rank <= last.pre.root_rank
    /\ RootOf(last.post).rank = last.pre.root_rank

\* the number of events of the last operation that satisfy a test
Events(ev, kind, key) ==
    {i \in 1..Len(log) : log[i].ev = ev /\ log[i].kind = kind /\ log[i].key = key}
Applies(kind, key, dir) == {i \in Events("apply", kind, key) : log[i].dir = dir}
MODELS_WITH_APPLY == {"post", "vote", "award"}

\* C4: every creation of a Post, Vote or Award that is not raw has apply(+1)
\* called on the instance exactly once, however often the instance is saved
\* again; a raw creation has it called zero times; every deletion has
\* apply(-1) called exactly once; and apply is called for no other reason.
C4_ExactlyOnce ==
    \A i \in 1..Len(log) :
        LET e == log[i] IN
        e.kind \in MODELS_WITH_APPLY =>
          /\ (e.ev = "save" /\ e.created) =>
                Cardinality(Applies(e.kind, e.key, 1)) = IF e.raw THEN 0 ELSE 1
          /\ (e.ev = "delete") =>
                Cardinality(Applies(e.kind, e.key, -1)) = Cardinality(Events("delete", e.kind, e.key))
          /\ (e.ev = "apply" /\ e.dir = 1) =>
                \E j \in Events("save", e.kind, e.key) : log[j].created /\ ~log[j].raw
          /\ (e.ev = "apply" /\ e.dir = -1) =>
                Events("delete", e.kind, e.key) # {}

\* a post created with content: inserted, saved again by finalize_post and
\* by create_revision, applied once
C4_Witness ==
    /\ last.op = "create_post" /\ last.post # None
    /\ posts[last.post].type = POST_ANSWER
    /\ Cardinality(Events("save", "post", <<last.post>>)) >= 3
    /\ Cardinality(Applies("post", <<last.post>>, 1)) = 1
    /\ posts[last.post].revision_count = 1

\* C9: when insert_vote calls served at the same time have left k >= 1 votes
\* of one type by one user on one post, the next insert_vote of that type by
\* that user on that post deletes all k of them, creates no vote, and takes
\* back the effect of each deleted vote exactly once: apply(-1) is called k
\* times, and for an up-vote the post's score, the root's full_score and the
\* author's reputation end k lower, for a down-vote the score and full_score
\* end k higher.
C9_DuplicateCollapse ==
    (last.op = "insert_vote" /\ last.found >= 1) =>
        LET key == <<last.user, last.post, last.type>>
            k == last.found
            sign == CASE last.type = VOTE_UP -> 1
                      [] last.type = VOTE_DOWN -> -1
                      [] OTHER -> 0
        IN /\ votes[key] = 0
           /\ \A i \in 1..Len(log) : ~(log[i].ev = "save" /\ log[i].kind = "vote")
           /\ Cardinality(Events("delete", "vote", key)) = k
           /\ Cardinality(Applies("vote", key, -1)) = k
           /\ posts[last.post].score = last.pre.score - sign * k
           /\ RootOf(last.post).full_score = last.pre.full_score - sign * k
           /\ Reputation(last.post) =
                 last.pre.reputation - (IF last.type = VOTE_UP THEN k ELSE 0)

\* two requests passed the query together and stored two up-votes; the next
\* call took both back
C9_Witness ==
    /\ last.op = "insert_vote" /\ last.type = VOTE_UP /\ last.found = 2
    /\ votes[<<last.user, last.post, VOTE_UP>>] = 0
    /\ Cardinality(Applies("vote", <<last.user, last.post, VOTE_UP>>, -1)) = 2

\* two requests in which two different users each cast an up-vote on the
\* same post have both finished
RacedUp ==
    /\ \A p \in Procs : /\ txns[p].pc = "done" /\ txns[p].type = VOTE_UP
                         /\ txns[p].found = 0 /\ txns[p].opposing = 0
    /\ txns[1].post.id = txns[2].post.id
    /\ txns[1].user # txns[2].user

\* two additions of the same tag have both finished
RacedTag ==
    /\ \A p \in Procs : tagTxns[p].pc = "done"
    /\ tagTxns[1].tag = tagTxns[2].tag

\* C10: however two insert_vote requests in which two different users each
\* cast an up-vote on the same post are interleaved, the post's score, the
\* root's full_score and the author's reputation each end 2 higher than they
\* were before the first of them; and two interleaved additions of the same
\* tag raise its count by 2.
C10_NoLostUpdates ==
    /\ RacedUp =>
          LET P == txns[1].post.id
              pre == txns[1].pre
          IN /\ posts[P].score = pre.score + 2
             /\ RootOf(P).full_score = pre.full_score + 2
             /\ Reputation(P) = pre.reputation + 2
    /\ RacedTag => tags[tagTxns[1].tag] = tagTxns[1].seen + 2

(***************************************************************************)
(* Tag creations by the threads of one server process.  The receivers of   *)
(* post_save are one registry for all threads (connected); every thread    *)
(* runs Tag(name=..., count=...).save(), and with it tag_created, a step   *)
(* at a time: the INSERT, the send of post_save, the save of the zeroed    *)
(* count, the reconnection.                                                *)
(***************************************************************************)
\* Tag(name=name, count=count).save(): the row is inserted
TagInsert(p) ==
    \E name \in Imported \ DOMAIN tags, count \in 0..MaxCount :
        /\ creating[p].pc \in {"idle", "done"}
        /\ \A q \in Procs : txns[q].pc = "idle" /\ tagTxns[q].pc = "idle"
        /\ tags' = [t \in DOMAIN tags \cup {name} |-> IF t = name THEN count ELSE tags[t]]
        /\ creating' = [creating EXCEPT ![p] = [pc |-> "inserted", name |-> name,
                                                count |-> count]]
        /\ UNCHANGED <<Database, now, log, last, nOps, txns, tagTxns, connected, sessions>>

\* post_save is sent with created = True: tag_created runs when it is
\* connected, and disconnects itself when the count is not zero (line 761)
TagSignal(p) ==
    /\ creating[p].pc = "inserted"
    /\ IF connected /\ tag_created(creating[p].count, TRUE) # creating[p].count
       THEN /\ connected' = FALSE
            /\ creating' = [creating EXCEPT ![p].pc = "zero"]
       ELSE /\ creating' = [creating EXCEPT ![p].pc = "done"]
            /\ UNCHANGED connected
    /\ UNCHANGED <<Database, now, log, last, nOps, txns, tags, tagTxns, sessions>>

\* lines 762-763: instance.count = 0; instance.save().  The post_save of this
\* save has created = False, so a tag_created that another thread connected
\* again does nothing
TagZero(p) ==
    /\ creating[p].pc = "zero"
    /\ tags' = [tags EXCEPT ![creating[p].name] = tag_created(creating[p].count, TRUE)]
    /\ creating' = [creating EXCEPT ![p].pc = "reconnect"]
    /\ UNCHANGED <<Database, now, log, last, nOps, txns, tagTxns, connected, sessions>>

\* line 764: signals.post_save.connect(tag_created, sender=Tag)
TagReconnect(p) ==
    /\ creating[p].pc = "reconnect"
    /\ connected' = TRUE
    /\ creating' = [creating EXCEPT ![p].pc = "done"]
    /\ UNCHANGED <<Database, now, log, last, nOps, txns, tags, tagTxns, sessions>>

NextTagCreation ==
    \E p \in Procs : TagInsert(p) \/ TagSignal(p) \/ TagZero(p) \/ TagReconnect(p)

SpecTagCreation == Init /\ [][NextTagCreation]_vars

(***************************************************************************)
(* Tags, moderation, notes, child counts and revisions                     *)
(***************************************************************************)
\* the existing posts whose tag set contains the tag
Tagged(t) == {p \in DOMAIN posts : t \in tagSets[p]}

\* C11: in every state reached by post creations, set_tags calls, tag
\* removals and post_moderate calls (hard deletions included), the count of
\* each Tag equals the number of existing posts whose tag set contains the
\* Tag, and no count is negative.
C11_TagCount ==
    \A t \in DOMAIN tags : tags[t] = Cardinality(Tagged(t)) /\ tags[t] >= 0

\* a tagged post has been deleted by its author and its tag still counts it
C11_DeletedTagged ==
    /\ last.op = "post_moderate" /\ last.type = POST_DELETED
    /\ last.post \notin DOMAIN posts
    /\ \E t \in DOMAIN tags : tags[t] = 1 /\ Tagged(t) = {}

\* a tag has been taken off a post and still counts it
C11_Removed ==
    /\ last.op = "remove_tag"
    /\ tags[last.type] = 1 /\ Tagged(last.type) = {}

\* C12: every Tag whose creation has completed has count 0, whatever count
\* was supplied and however the creations of the threads interleave; and when
\* no creation is under way tag_created is connected.
C12_NewTagZero ==
    /\ \A p \in Procs : creating[p].pc = "done" => tags[creating[p].name] = 0
    /\ (\A p \in Procs : creating[p].pc \in {"idle", "done"}) => connected

\* the events of a log: the calls of apply, and the notes created
AppliesIn(lg, kind, key, dir) ==
    {i \in 1..Len(lg) : lg[i].ev = "apply" /\ lg[i].kind = kind /\ lg[i].key = key
                        /\ lg[i].dir = dir}
NotesIn(lg) == {i \in 1..Len(lg) : lg[i].ev = "note"}

\* a step that is a call of post_moderate; Moderated is its post, and the
\* call passes the checks of lines 399-409 when PassesChecks holds before it
ModerateStep == nOps' = nOps + 1 /\ last'.op = "post_moderate"
Moderated == last'.post
PassesChecks ==
    /\ last'.type = POST_OPEN => can_moderate(profiles[last'.user])
    /\ last'.found = 1
NoOrphans == {i \in DOMAIN posts : posts[i].parent = Moderated /\ i # Moderated} = {}
HardDelete ==
    /\ PassesChecks
    /\ last'.type = POST_DELETED
    /\ last'.user = posts[Moderated].author
    /\ NoOrphans

\* C13: a call of post_moderate removes the Post row exactly when the checks
\* pass, the status is deleted, the actor is the author of the post and no
\* other post has it as parent; then every Vote on the post is removed, each
\* with one call of apply(-1), no other Post row is removed and no Note is
\* created.  After every other call the Post row exists.
C13_HardDelete ==
    [][ModerateStep =>
         /\ Moderated \notin DOMAIN posts' <=> HardDelete
         /\ HardDelete =>
              /\ DOMAIN posts' = DOMAIN posts \ {Moderated}
              /\ \A k \in DOMAIN votes' : k[2] = Moderated => votes'[k] = 0
              /\ \A k \in DOMAIN votes : k[2] = Moderated =>
                    Cardinality(AppliesIn(log', "vote", k, -1)) = votes[k]
              /\ notes' = notes
              /\ NotesIn(log') = {}
         /\ ~HardDelete => DOMAIN posts' = DOMAIN posts]_vars

\* an author has destroyed their post, which had a vote on it
C13_Witness ==
    /\ last.op = "post_moderate" /\ last.type = POST_DELETED
    /\ last.post \notin DOMAIN posts
    /\ \E i \in 1..Len(log) : log[i].ev = "apply" /\ log[i].kind = "vote" /\ log[i].dir = -1

\* C14: a call of post_moderate with status open by an actor who cannot
\* moderate, or with any status when authorize_post_edit answers false,
\* changes no Post (so no status and no counter), Vote, Note, profile,
\* revision, tag or award, and signals nothing: it returns normally.
C14_RejectedNoOp ==
    [][ModerateStep /\ ~PassesChecks =>
         /\ UNCHANGED <<posts, nextPost, votes, notes, profiles, revisions, badges, awards,
                        tags, tagSets>>
         /\ log' = <<>>]_vars

\* someone who cannot moderate has asked to reopen a closed post they may edit
C14_Witness ==
    /\ last.op = "post_moderate" /\ last.type = POST_OPEN /\ last.found = 1
    /\ ~can_moderate(profiles[last.user])
    /\ last.post \in DOMAIN posts
    /\ posts[last.post].status = POST_CLOSED

\* C15: after a call of post_moderate that passes the checks and is not a
\* hard delete, the status of the post is the one requested and a Note of
\* the moderator type has been created for the author of the post; a second
\* Note, already read, has been created for the actor exactly when the actor
\* is not the author.
C15_ModerationNotice ==
    [][ModerateStep /\ PassesChecks /\ ~HardDelete =>
         LET author == posts[Moderated].author
             actor == last'.user
             N == NotesIn(log')
         IN /\ posts'[Moderated].status = last'.type
            /\ \E i \in N : log'[i].key[1] = author /\ log'[i].key[2] = NOTE_MODERATOR
            /\ (\E i, j \in N : /\ i # j
                                /\ log'[j].key[1] = actor
                                /\ log'[j].key[3] = FALSE)
                 <=> actor # author]_vars

\* a moderator has closed the post of another user
C15_ClosedByModerator ==
    /\ last.op = "post_moderate" /\ last.type = POST_CLOSED /\ last.found = 1
    /\ last.post \in DOMAIN posts
    /\ posts[last.post].author # last.user
    /\ posts[last.post].status = POST_CLOSED

\* a step that creates a post, and the post it creates
CreateStep == nOps' = nOps + 1 /\ last'.op = "create_post" /\ last'.post # None
Created == last'.post
\* the users with a post in the thread of the post created, after the step
ThreadAuthors ==
    LET root == posts'[Created].root
    IN {posts'[root].author} \cup
       {posts'[c].author : c \in {i \in DOMAIN posts' : posts'[i].root = root}}
NotesFor(lg, u) == {i \in NotesIn(lg) : lg[i].key[1] = u}

\* C16: the creation of a post with content that is not empty creates one
\* Note for each user who is the author of the root or of a post with that
\* root, and none for anyone else; the Note is unread exactly when its
\* target is not the author of the new post.  A creation with empty content
\* creates no Note, and neither do the later saves of a post (those of an
\* insert_vote).
C16_CreationNotes ==
    [][/\ CreateStep =>
            IF posts'[Created].content # <<>>
            THEN /\ \A u \in Users :
                       Cardinality(NotesFor(log', u)) = IF u \in ThreadAuthors THEN 1 ELSE 0
                 /\ \A i \in NotesIn(log') :
                       /\ log'[i].key[3] = (log'[i].key[1] # posts'[Created].author)
                       /\ log'[i].key[2] = NOTE_USER
                 /\ BagCardinality(notes') = BagCardinality(notes) + Cardinality(ThreadAuthors)
            ELSE NotesIn(log') = {} /\ notes' = notes
       /\ (nOps' = nOps + 1 /\ last'.op = "insert_vote") =>
            NotesIn(log') = {} /\ notes' = notes]_vars

\* B has answered the question of A: a note for each, the one of A unread
C16_Witness ==
    /\ last.op = "create_post" /\ last.type = POST_ANSWER /\ last.user = "B"
    /\ last.post \in DOMAIN posts
    /\ posts[last.post].content # <<>>
    /\ posts[posts[last.post].root].author = "A"
    /\ \E i, j \in NotesIn(log) : /\ log[i].key = <<"A", NOTE_USER, TRUE>>
                                  /\ log[j].key = <<"B", NOTE_USER, FALSE>>

\* the stored Notes with the user as target that are unread
Unread(u) ==
    BagCardinality([n \in {m \in BagToSet(notes) : m.target = u /\ m.unread} |-> notes[n]])

\* C17: in every state reached by post creations, post_moderate calls and
\* user_moderate calls (and edits and tag changes), the new_messages of each
\* user's profile is the number of stored Notes with that user as target and
\* unread true.
C17_UnreadCounter ==
    \A u \in Users : profiles[u].new_messages = Unread(u)

\* a moderator has suspended another user, who has an unread Note of it
C17_Witness ==
    /\ last.op = "user_moderate" /\ last.found = 1 /\ last.type = USER_SUSPENDED
    /\ \E u \in Users : /\ u # last.user
                        /\ profiles[u].status = USER_SUSPENDED
                        /\ profiles[u].new_messages >= 1
                        /\ Unread(u) >= 1

\* the existing posts of a type whose parent is the post
Children(p, type) == {c \in DOMAIN posts : posts[c].type = type /\ posts[c].parent = p}

\* C18: in every state reached by post creations and post_moderate calls,
\* hard deletes included (and votes), the answer_count of each post is the
\* number of existing answers whose parent it is, and its comment_count the
\* number of existing comments whose parent it is.
C18_ChildCounts ==
    \A p \in DOMAIN posts :
        /\ posts[p].answer_count = Cardinality(Children(p, POST_ANSWER))
        /\ posts[p].comment_count = Cardinality(Children(p, POST_COMMENT))

\* a question has one answer and one comment and a second answer to it was
\* destroyed by its author
C18_Witness ==
    /\ last.op = "post_moderate" /\ last.type = POST_DELETED
    /\ last.post \notin DOMAIN posts
    /\ last.pre.root \in DOMAIN posts
    /\ posts[last.pre.root].answer_count = 1
    /\ Cardinality(Children(last.pre.root, POST_ANSWER)) = 1
    /\ \E i \in 1..Len(log) : log[i] = Event("apply", "post", <<last.post>>, -1, FALSE, FALSE)

\* a step in which create_revision is called: an edit of a post, or the
\* creation of a post that has content and is not a comment; Revised is the
\* post it is called with
EditStep == nOps' = nOps + 1 /\ last'.op = "edit_post"
RevisingStep ==
    \/ EditStep
    \/ CreateStep /\ posts'[Created].content # <<>> /\ posts'[Created].type # POST_COMMENT
Revised == last'.post
\* the content of the most recent revision of the post before the step, the
\* empty text when there is none
Prev ==
    IF Revised \in DOMAIN revisions /\ Len(revisions[Revised]) > 0
    THEN revisions[Revised][Len(revisions[Revised])]
    ELSE <<>>
RevisionsBefore == IF Revised \in DOMAIN revisions THEN revisions[Revised] ELSE <<>>
CountBefore == IF Revised \in DOMAIN posts THEN posts[Revised].revision_count ELSE 0

\* every post has as many revisions as its revision_count says, and no two
\* revisions that follow one another have the same content
RevisionsCounted ==
    \A p \in DOMAIN posts :
        /\ posts[p].revision_count = Len(revisions[p])
        /\ \A i \in 1..(Len(revisions[p]) - 1) : revisions[p][i] # revisions[p][i + 1]

\* C19: create_revision creates no PostRevision and leaves revision_count as
\* it is when the combined form of the post equals the content of its most
\* recent revision (the empty text when it has none); otherwise it creates
\* one PostRevision with the combined form as content and raises
\* revision_count by 1.  Hence in every state revision_count is the number of
\* PostRevision rows of the post and no two consecutive revisions are equal.
C19_Revisions ==
    /\ [][RevisingStep =>
            IF combine(posts'[Revised]) = Prev
            THEN /\ revisions'[Revised] = RevisionsBefore
                 /\ posts'[Revised].revision_count = CountBefore
            ELSE /\ revisions'[Revised] = Append(RevisionsBefore, combine(posts'[Revised]))
                 /\ posts'[Revised].revision_count = CountBefore + 1]_vars
    /\ []RevisionsCounted

\* a post has been edited twice: the second edit changed its content and
\* made its second revision
C19_Witness ==
    /\ last.op = "edit_post"
    /\ last.post \in DOMAIN posts
    /\ posts[last.post].revision_count = 2
    /\ Len(revisions[last.post]) = 2
    /\ revisions[last.post][2] = combine(posts[last.post])

\* a step that creates a question with content, and a step that edits a
\* question and changes its content
QuestionStep ==
    /\ CreateStep
    /\ posts'[Created].type = POST_QUESTION
    /\ posts'[Created].content # <<>>
ContentEdit ==
    /\ EditStep
    /\ posts[Revised].type = POST_QUESTION
    /\ posts'[Revised].content # posts[Revised].content
OneMoreRevision == Len(revisions'[Revised]) = Len(revisions[Revised]) + 1

\* C20 as stated: after the creation of a question Q with content, Q is its
\* own root and its own parent, its revision_count is 0 and it has no
\* PostRevision; an edit that changes its content then makes one new
\* PostRevision.
C20_Baseline_AsStated ==
    [][/\ QuestionStep =>
            /\ posts'[Created].root = Created
            /\ posts'[Created].parent = Created
            /\ posts'[Created].revision_count = 0
            /\ revisions'[Created] = <<>>
       /\ ContentEdit => OneMoreRevision]_vars

\* C20: after the creation of a question Q with content, Q is its own root
\* and its own parent, its revision_count is 1 and it has one PostRevision,
\* whose content is the combined form of Q; an edit that changes its content
\* then makes one new PostRevision.
C20_Baseline ==
    [][/\ QuestionStep =>
            /\ posts'[Created].root = Created
            /\ posts'[Created].parent = Created
            /\ posts'[Created].revision_count = 1
            /\ revisions'[Created] = <<combine(posts'[Created])>>
       /\ ContentEdit => OneMoreRevision]_vars

\* A has created a question with content and then changed its content: the
\* question has the revision of its creation and the one of the edit
C20_Witness ==
    /\ last.op = "edit_post" /\ last.user = "A"
    /\ last.post \in DOMAIN posts
    /\ posts[last.post].type = POST_QUESTION
    /\ posts[last.post].root = last.post /\ posts[last.post].parent = last.post
    /\ posts[last.post].content = <<>>
    /\ Len(revisions[last.post]) = 2
    /\ revisions[last.post][1] # revisions[last.post][2]

(***************************************************************************)
(* Roots, the single update path, page views, scores and accepted answers  *)
(***************************************************************************)
\* every stored post has a root and a parent, its root is its own root, and
\* a top-level post is its own root and parent
RootsSet ==
    \A p \in DOMAIN posts :
        /\ posts[p].root # None /\ posts[p].parent # None
        /\ posts[p].root \in DOMAIN posts
        /\ posts[posts[p].root].root = posts[p].root
        /\ posts[p].type \in POST_TOPLEVEL => posts[p].root = p /\ posts[p].parent = p

\* a step that saves a new post with only one of root and parent, and a
\* step that saves a new post and has it rejected
PartialStep == nOps' = nOps + 1 /\ last'.op = "create_partial"
RejectedStep ==
    /\ nOps' = nOps + 1
    /\ last'.op \in {"create_post", "create_partial"}
    /\ last'.post = None

\* C21: in every state every stored post has its root and its parent set, a
\* top-level post created without a root is its own root and parent, and
\* the root of every post is its own root; the save of a new post that is
\* not top-level and lacks its root or its parent is rejected and stores no
\* post.
C21_RootOneHop ==
    /\ []RootsSet
    /\ [][/\ PartialStep => RejectedStep
          /\ RejectedStep =>
                /\ last'.type \notin POST_TOPLEVEL
                /\ UNCHANGED <<posts, nextPost, notes, revisions, profiles>>
          /\ (CreateStep /\ posts'[Created].type \in POST_TOPLEVEL) =>
                posts'[Created].root = Created /\ posts'[Created].parent = Created]_vars

\* a comment on an answer is stored with the question as its root
C21_Witness ==
    /\ last.op = "create_post" /\ last.type = POST_COMMENT
    /\ last.post \in DOMAIN posts
    /\ posts[posts[last.post].parent].type = POST_ANSWER
    /\ posts[last.post].root # posts[last.post].parent
    /\ posts[posts[last.post].root].type = POST_QUESTION

\* the save of a comment that was given its parent and no root was rejected
C21_Rejected ==
    /\ last.op = "create_partial" /\ last.type = POST_COMMENT /\ last.post = None
    /\ \E i \in 1..Len(log) : log[i].ev = "rejected"
    /\ posts # <<>>

\* a step in which apply is called on no Post, Vote or Award
NoApply == {i \in 1..Len(log') : log'[i].ev = "apply"} = {}
\* the step leaves score, rank and full_score of every post, the reputation
\* of every user and the count of every badge as they were
ScoresKept ==
    /\ \A p \in DOMAIN posts \cap DOMAIN posts' :
          /\ posts'[p].score = posts[p].score
          /\ posts'[p].rank = posts[p].rank
          /\ posts'[p].full_score = posts[p].full_score
    /\ \A u \in Users : profiles'[u].score = profiles[u].score
    /\ \A b \in Badges : badges'[b].count = badges[b].count

\* C22: score, rank and full_score of a post, the reputation of a user and
\* the count of a badge change only in an operation that calls apply(+1) for
\* a creation or apply(-1) for a deletion of a Post, Vote or Award; every
\* other operation (update_post_views, the status change of post_moderate,
\* user_moderate, create_revision, send_note, tag changes) leaves them all
\* unchanged.
C22_SinglePath ==
    [][(nOps' = nOps + 1 /\ NoApply) => ScoresKept]_vars

\* the first view of a post in a session of a user has been counted
C22_Viewed ==
    /\ last.op = "update_post_views" /\ last.user # ""
    /\ last.post \in DOMAIN posts
    /\ posts[last.post].views = 1
    /\ posts[last.post].rank = last.pre.rank + 3600
    /\ posts[last.post].score = last.pre.score

\* a step that is a call of update_post_views, its post and its session
ViewStep == nOps' = nOps + 1 /\ last'.op = "update_post_views"
Viewed == last'.post
Session == last'.type

\* C23: the first call of update_post_views for a post in the session of a
\* user raises the stored views of that post by 1 and puts the post id into
\* the viewed set of the session; every later call in that session for that
\* post leaves the views as they are; a call by a visitor who is not logged
\* in changes neither views nor session.  No call changes the views of
\* another post or another session.
C23_ViewsOncePerSession ==
    [][ViewStep =>
         /\ \A p \in DOMAIN posts \ {Viewed} : posts'[p].views = posts[p].views
         /\ \A s \in Sessions \ {Session} : sessions'[s] = sessions[s]
         /\ DOMAIN posts' = DOMAIN posts
         /\ IF SessionUser(Session) = ""
            THEN posts' = posts /\ sessions' = sessions
            ELSE IF Viewed \notin sessions[Session]
            THEN /\ posts'[Viewed].views = posts[Viewed].views + 1
                 /\ sessions'[Session] = sessions[Session] \cup {Viewed}
            ELSE /\ posts'[Viewed].views = posts[Viewed].views
                 /\ sessions' = sessions]_vars

\* a user has asked for a post a second time in one session: its views are
\* still 1
C23_Witness ==
    /\ last.op = "update_post_views" /\ last.user = "A"
    /\ last.post \in DOMAIN posts
    /\ last.post \in sessions[last.type]
    /\ posts[last.post].views = 1
    /\ posts[last.post].rank = last.pre.rank
    /\ nOps = 3

RECURSIVE Stored(_)
\* the number of stored Vote rows with a key in the set
Stored(keys) ==
    IF keys = {} THEN 0
    ELSE LET k == CHOOSE x \in keys : TRUE IN votes[k] + Stored(keys \ {k})
\* the stored votes of a type on a post, and the stored up-votes on the
\* existing posts of an author
VotesOn(p, type) == Stored({k \in DOMAIN votes : k[2] = p /\ k[3] = type})
UpVotesFor(u) ==
    Stored({k \in DOMAIN votes : /\ k[3] = VOTE_UP
                                 /\ k[2] \in DOMAIN posts
                                 /\ posts[k[2]].author = u})

\* C24: in every state reached by post creations, insert_vote calls and
\* post_moderate calls, hard deletes included, the score of each post is the
\* number of stored up-votes on it minus the number of stored down-votes on
\* it, and the reputation of each user is the number of stored up-votes on
\* the existing posts of that user.
C24_ScoreReputation ==
    /\ \A p \in DOMAIN posts : posts[p].score = VotesOn(p, VOTE_UP) - VotesOn(p, VOTE_DOWN)
    /\ \A u \in Users : profiles[u].score = UpVotesFor(u)

\* an author has destroyed a post of theirs that had an up-vote and a
\* down-vote: the reputation the up-vote gave is gone
C24_Witness ==
    /\ last.op = "post_moderate" /\ last.type = POST_DELETED
    /\ last.post \notin DOMAIN posts
    /\ last.pre.score = 0 /\ last.pre.reputation = 1
    /\ profiles[last.user].score = 0
    /\ UpVotesFor(last.user) = 0

\* the parent and the root of every stored post are stored posts
ParentsStored ==
    \A p \in DOMAIN posts : posts[p].parent \in DOMAIN posts /\ posts[p].root \in DOMAIN posts

\* C25: after any sequence of post creations and post_moderate calls (and
\* votes) the parent and the root of every stored post are stored posts;
\* post_moderate removes no post that is the parent of another post: such a
\* post keeps its row, and is marked deleted when that is the status asked
\* for and the checks pass.
C25_NoOrphans ==
    /\ []ParentsStored
    /\ [][(ModerateStep /\ ~NoOrphans) =>
             /\ Moderated \in DOMAIN posts'
             /\ DOMAIN posts' = DOMAIN posts
             /\ (PassesChecks /\ last'.type = POST_DELETED) =>
                   posts'[Moderated].status = POST_DELETED]_vars

\* the author of a question that has an answer has deleted the question: it
\* is marked deleted and the answer still has its parent
C25_Witness ==
    /\ last.op = "post_moderate" /\ last.type = POST_DELETED /\ last.found = 1
    /\ last.post \in DOMAIN posts
    /\ posts[last.post].author = last.user
    /\ posts[last.post].status = POST_DELETED
    /\ \E c \in DOMAIN posts : c # last.post /\ posts[c].parent = last.post

\* the posts of the thread of a root
Thread(r) == {p \in DOMAIN posts : posts[p].root = r}

\* C26: after any sequence of insert_vote calls with type accept, by any
\* users on any posts of a thread, the accepted flag of a post is true
\* exactly when an accept vote on that post is stored, and the accepted flag
\* of a root is true exactly when an accept vote is stored on a post of its
\* thread.
C26_AcceptedFlag ==
    \A p \in DOMAIN posts :
        /\ posts[p].root # p => (posts[p].accepted <=> VotesOn(p, VOTE_ACCEPT) > 0)
        /\ posts[p].root = p =>
              (posts[p].accepted <=> \E q \in Thread(p) : VotesOn(q, VOTE_ACCEPT) > 0)

\* an accept vote on an answer was taken back while another accept vote is
\* stored in the thread: the root is not marked accepted
C26_TakenBack ==
    /\ Voted(VOTE_ACCEPT) /\ last.found = 1
    /\ \E q \in Thread(posts[last.post].root) : VotesOn(q, VOTE_ACCEPT) > 0
    /\ ~RootOf(last.post).accepted

====
